---- MODULE Spec2Model ----
(***************************************************************************)
(* Stellark: the on-chain transaction orchestrator (invokeContract), the   *)
(* read-only invoker (readContract) and the wrappers that call them.       *)
(*                                                                         *)
(* Every call slot c is one invocation of invokeContract or readContract.  *)
(* An action is the code that runs between two awaits: it performs the     *)
(* awaited network request, receives its outcome (drawn from the outcomes  *)
(* the collaborator can produce) and runs the code up to the next await.   *)
(*                                                                         *)
(* The off-chain store (contractService.ts over the Supabase tables) is    *)
(* the pair of tables listings / companies; reply is what the last facade  *)
(* call gave its caller. StoreSpec runs the facade alone; MarketSpec runs  *)
(* two browser sessions buying from a resale listing (HomePage.tsx).       *)
(***************************************************************************)
EXTENDS Integers, Sequences, FiniteSets, TLC

\* ---------------------------------------------------------------- bounds
NumCalls == 1          \* invocations that may be in flight together
MaxCount == 2          \* the per-request call counters saturate here
MaxVal == 1            \* contract return values are 0..MaxVal
MantissaBits == 3      \* significant bits of a number (IEEE double: 53)
MaxLines == 2          \* lines a deploy command prints
MaxRefresh == 2        \* balance refreshes in flight together

Calls == 1..NumCalls

\* ------------------------------------------------------------- the codec
\* Wire values (xdr.ScVal) a contract method can return, and "absent"
\* (returnValue / result.retval undefined).
ScVals ==
    {[type |-> "void", val |-> 0], [type |-> "map", val |-> 0]}
        \cup {[type |-> "i128", val |-> n] : n \in 0..MaxVal}

NoVal == [type |-> "absent", val |-> 0]

RetVals == ScVals \cup {NoVal}

\* Native (JavaScript) values.
NullV == [t |-> "null", v |-> 0]

scValToNative(sv) ==
    CASE sv.type = "i128" -> [t |-> "bigint", v |-> sv.val]
      [] sv.type = "map"  -> [t |-> "object", v |-> sv.val]
      [] OTHER            -> NullV

\* return result ? scValToNative(result) : null
Decode(rv) == IF rv.type = "absent" THEN NullV ELSE scValToNative(rv)

\* JavaScript truthiness of a native value (!result)
Truthy(x) ==
    CASE x.t = "null"   -> FALSE
      [] x.t = "bigint" -> x.v # 0
      [] x.t = "number" -> x.v # 0
      [] OTHER          -> TRUE

RECURSIVE Pow2(_)
Pow2(n) == IF n = 0 THEN 1 ELSE 2 * Pow2(n - 1)

\* Number.MAX_SAFE_INTEGER
SafeMax == Pow2(MantissaBits) - 1

\* the integers the codec is fed: the safe range and beyond
CodecIntegers == -Pow2(MantissaBits + 2)..Pow2(MantissaBits + 2)

Abs(n) == IF n < 0 THEN -n ELSE n

\* the spacing of the numbers around magnitude a
RECURSIVE Ulp(_, _)
Ulp(a, u) == IF a \div u < Pow2(MantissaBits) THEN u ELSE Ulp(a, 2 * u)

\* Number(value) for a bigint: the nearest number, ties to the even mantissa
ToNumber(n) ==
    LET a == Abs(n)
        u == Ulp(a, 1)
        q == a \div u
        r == a % u
        m == IF 2 * r > u \/ (2 * r = u /\ q % 2 = 1) THEN (q + 1) * u ELSE q * u
    IN  IF n < 0 THEN -m ELSE m

\* the integer-valued JavaScript numbers
Numbers == {ToNumber(n) : n \in CodecIntegers}

\* numberToScVal: nativeToScVal(num, { type: 'i128' })
numberToScVal(num) == [type |-> "i128", val |-> num]

\* Only numbers are converted; a bigint falls through to 0.
bigIntToNumber_NumbersOnly(value) ==
    IF value.t = "number" THEN value.v
    ELSE 0

\* bigIntToNumber: bigint -> Number(value); number -> value; otherwise 0
bigIntToNumber(value) ==
    IF value.t = "bigint" THEN ToNumber(value.v)
    ELSE IF value.t = "number" THEN value.v
    ELSE 0

\* ------------------------------------------------------------- the state
VARIABLES
    kind,        \* "none" | "invoke" | "read": which function slot c runs
    caller,      \* the function that called it
    pc,          \* the await the invocation is suspended at, or its end
    calls,       \* how often each collaborator request was issued
    stages,      \* the protocol stages entered, in order
    simResult,   \* outcome of simulateTransaction
    signResult,  \* outcome of signTransaction
    sendStatus,  \* immediate status of sendTransaction
    lastStatus,  \* status of the latest getTransaction
    ledger,      \* the ledger's record of the submitted transaction
    retval,      \* wire return value in the final response (returnValue / retval)
    result,      \* value the invocation returned
    err,         \* error the invocation threw
    errStatus,   \* status carried by a "Transaction failed: <status>" error
    callerOut,   \* what the caller made of the outcome
    \* the off-chain store (Supabase)
    listings,    \* table resale_listings: row i has id i
    companies,   \* table companies
    reply,       \* what the last store facade call gave its caller
    \* HomePage state of each browser session
    resaleListings,  \* useState resaleListings: the listings last loaded
    selectedResale,  \* useState selectedResale: the listing in the modal
    buyTokens,       \* the tokens argument of the running handleBuyResale
    \* the codec (stellar.ts)
    codec,           \* a value on its way through numberToScVal / bigIntToNumber
    \* HomePage.loadCompanies
    shown,           \* the CompanyWithOnChainData being built for one company
    \* the two pages that create resale listings
    sale,            \* a seller's balance, loaded holding and sell request
    \* CreateListingPage.handleCreateCompanyListing
    form,            \* the company form and how far its submission got
    \* the backend (POST /api/deploy-contract)
    server,          \* one request: the commands run and the responses sent
    \* WalletProvider
    wallet           \* address, balance, the interval and a running refresh

callVars == <<kind, caller, pc, calls, stages, simResult, signResult,
              sendStatus, lastStatus, ledger, retval, result, err, errStatus,
              callerOut>>

storeVars == <<listings, companies, reply>>

pageVars == <<resaleListings, selectedResale, buyTokens>>

\* State outside the market: each part moves in a specification of its own.
appVars == <<codec, shown, sale, form, server, wallet>>

marketVars == <<storeVars, pageVars, appVars>>

vars == <<callVars, marketVars>>

Requests == {"getAccount", "simulate", "sign", "send", "get"}

StageOrder ==
    <<"account", "build", "simulate", "assemble", "sign", "submit", "confirm">>

NoOut == [kind |-> "none", val |-> NullV, msg |-> "none"]

\* Two browser sessions use the application.
Sessions == {1, 2}

\* selectedResale === null
NoListing == [id |-> 0, contract_id |-> "none", seller_wallet |-> "none",
              tokens_for_sale |-> 0, price_per_token |-> 0,
              is_active |-> FALSE, created_at |-> 0]

NoReply == [op |-> "none", id |-> 0, asked |-> "none", cause |-> "none",
            out |-> "none", rows |-> <<>>]

\* No invocation has started on the call slots D.
CallsInit(D) ==
    /\ kind = [c \in D |-> "none"]
    /\ caller = [c \in D |-> "none"]
    /\ pc = [c \in D |-> "idle"]
    /\ calls = [c \in D |-> [r \in Requests |-> 0]]
    /\ stages = [c \in D |-> <<>>]
    /\ simResult = [c \in D |-> "none"]
    /\ signResult = [c \in D |-> "none"]
    /\ sendStatus = [c \in D |-> "NONE"]
    /\ lastStatus = [c \in D |-> "NONE"]
    /\ ledger = [c \in D |-> "NONE"]
    /\ retval = [c \in D |-> NoVal]
    /\ result = [c \in D |-> NullV]
    /\ err = [c \in D |-> "none"]
    /\ errStatus = [c \in D |-> "NONE"]
    /\ callerOut = [c \in D |-> NoOut]

\* The tables are empty and no page has loaded anything.
MarketInit ==
    /\ listings = <<>>
    /\ companies = <<>>
    /\ reply = NoReply
    /\ resaleListings = [b \in Sessions |-> <<>>]
    /\ selectedResale = [b \in Sessions |-> NoListing]
    /\ buyTokens = [b \in Sessions |-> 0]

NoCodec == [stage |-> "none", given |-> "none", src |-> 0,
            sc |-> NoVal, native |-> NullV, out |-> 0]

\* Nothing outside the market has happened.
NoShown == [stage |-> "none", supply |-> 0, balance |-> 0,
            infoRead |-> "none", balanceRead |-> "none",
            onChainInfo |-> NullV, ownerBalance |-> 0, tokensSold |-> 0]

\* no holding is loaded and nothing is being sold
NoSale == [chain |-> 0, holdings |-> 0, selectedHolding |-> 0,
           page |-> "none", tokens |-> 0, price |-> 0, balance |-> 0,
           outcome |-> "none"]

\* companyForm as useState creates it; submitted is the handler's const
\* contractId, saved tells that saveCompanyMetadata was called
NoForm == [contractId |-> "", submitted |-> "", saved |-> FALSE,
           outcome |-> "none", reload |-> FALSE]

NoForms == [c \in Calls |-> NoForm]

\* no request has reached POST /api/deploy-contract
NoServer == [stage |-> "idle", threw |-> FALSE, build |-> "none",
             deploy |-> "none", commands |-> <<>>, stdout |-> <<>>,
             responses |-> <<>>]

\* useState(null) three times; no interval, no refresh in flight
NoWallet == [walletAddress |-> "null", balance |-> "null", error |-> "null",
             interval |-> FALSE, inflight |-> 0, connecting |-> FALSE,
             checked |-> FALSE]

AppInit ==
    /\ codec = NoCodec
    /\ shown = NoShown
    /\ sale = NoSale
    /\ form = NoForms
    /\ server = NoServer
    /\ wallet = NoWallet

Init == CallsInit(Calls) /\ MarketInit /\ AppInit

\* ------------------------------------------------------------- helpers
Bump(n) == IF n < MaxCount THEN n + 1 ELSE n

Issue(c, r) == [calls EXCEPT ![c][r] = Bump(@)]

Enter(c, ss) == [stages EXCEPT ![c] = @ \o ss]

\* throw inside try { ... } catch (error) { console.error(...); throw error }
Throw(c, e) ==
    /\ pc' = [pc EXCEPT ![c] = "failed"]
    /\ err' = [err EXCEPT ![c] = e]

Terminated(c) == pc[c] \in {"returned", "failed"}


\* ------------------------------------------- invokeContract (stellar.ts)
\* A page handler calls a contractService wrapper (mintTokens, ...), which
\* calls invokeContract: new Contract(contractId) throws on a malformed id,
\* otherwise the call suspends at server.getAccount.
StartInvoke(c) ==
    /\ pc[c] = "idle"
    /\ kind' = [kind EXCEPT ![c] = "invoke"]
    /\ caller' = [caller EXCEPT ![c] = "handleInvest"]
    /\ \E validId \in BOOLEAN :
          IF validId
          THEN /\ pc' = [pc EXCEPT ![c] = "getAccount"]
               /\ err' = err
          ELSE Throw(c, "InvalidAddress")
    /\ UNCHANGED <<calls, stages, simResult, signResult, sendStatus,
                   lastStatus, ledger, retval, result, errStatus, callerOut>>
    /\ UNCHANGED marketVars

\* The call waits while another call is in flight: one orchestration at a
\* time.
GetAccount_OneAtATime(c) ==
    /\ kind[c] = "invoke"
    /\ pc[c] = "getAccount"
    /\ \A d \in DOMAIN pc : d # c => pc[d] \in {"idle", "returned", "failed"}
    /\ calls' = Issue(c, "getAccount")
    /\ \E r \in {"ok", "AccountNotFound", "BuildFailure"} :
          CASE r = "ok" ->
                 /\ stages' = Enter(c, <<"account", "build">>)
                 /\ pc' = [pc EXCEPT ![c] = "simulate"]
                 /\ err' = err
            [] r = "AccountNotFound" ->
                 /\ stages' = Enter(c, <<"account">>)
                 /\ Throw(c, r)
            [] OTHER ->
                 /\ stages' = Enter(c, <<"account", "build">>)
                 /\ Throw(c, r)
    /\ UNCHANGED <<kind, caller, simResult, signResult, sendStatus, lastStatus,
                   ledger, retval, result, errStatus, callerOut>>
    /\ UNCHANGED marketVars

\* await server.getAccount(walletAddress); contract.call; TransactionBuilder
GetAccount(c) ==
    /\ kind[c] = "invoke"
    /\ pc[c] = "getAccount"
    /\ calls' = Issue(c, "getAccount")
    /\ \E r \in {"ok", "AccountNotFound", "BuildFailure"} :
          CASE r = "ok" ->
                 /\ stages' = Enter(c, <<"account", "build">>)
                 /\ pc' = [pc EXCEPT ![c] = "simulate"]
                 /\ err' = err
            [] r = "AccountNotFound" ->
                 /\ stages' = Enter(c, <<"account">>)
                 /\ Throw(c, r)
            [] OTHER ->
                 /\ stages' = Enter(c, <<"account", "build">>)
                 /\ Throw(c, r)
    /\ UNCHANGED <<kind, caller, simResult, signResult, sendStatus, lastStatus,
                   ledger, retval, result, errStatus, callerOut>>
    /\ UNCHANGED marketVars

\* The simulation error is not checked: the call goes on to sign.
Simulate_IgnoreError(c) ==
    /\ kind[c] = "invoke"
    /\ pc[c] = "simulate"
    /\ calls' = Issue(c, "simulate")
    /\ \E r \in {"ok", "error", "threw"} :
          /\ simResult' = [simResult EXCEPT ![c] = r]
          /\ IF r = "threw"
             THEN /\ stages' = Enter(c, <<"simulate">>)
                  /\ Throw(c, "NetworkError")
             ELSE /\ stages' = Enter(c, <<"simulate", "assemble">>)
                  /\ pc' = [pc EXCEPT ![c] = "sign"]
                  /\ err' = err
    /\ UNCHANGED <<kind, caller, signResult, sendStatus, lastStatus, ledger,
                   retval, result, errStatus, callerOut>>
    /\ UNCHANGED marketVars

\* A request that threw is issued again instead of ending the call.
Simulate_Retry(c) ==
    /\ kind[c] = "invoke"
    /\ pc[c] = "simulate"
    /\ calls' = Issue(c, "simulate")
    /\ \E r \in {"ok", "error", "threw"} :
          /\ simResult' = [simResult EXCEPT ![c] = r]
          /\ CASE r = "ok" ->
                    /\ stages' = Enter(c, <<"simulate", "assemble">>)
                    /\ pc' = [pc EXCEPT ![c] = "sign"]
                    /\ err' = err
               [] r = "error" ->
                    /\ stages' = Enter(c, <<"simulate">>)
                    /\ Throw(c, "SimulationError")
               [] OTHER ->
                    /\ UNCHANGED <<stages, pc, err>>
    /\ UNCHANGED <<kind, caller, signResult, sendStatus, lastStatus, ledger,
                   retval, result, errStatus, callerOut>>
    /\ UNCHANGED marketVars

\* The simulation error is only logged; the throw comes after signing was
\* requested.
Simulate_SignThenThrow(c) ==
    /\ kind[c] = "invoke"
    /\ pc[c] = "simulate"
    /\ \E r \in {"ok", "error", "threw"} :
          /\ simResult' = [simResult EXCEPT ![c] = r]
          /\ CASE r = "ok" ->
                    /\ calls' = Issue(c, "simulate")
                    /\ stages' = Enter(c, <<"simulate", "assemble">>)
                    /\ pc' = [pc EXCEPT ![c] = "sign"]
                    /\ err' = err
               [] r = "error" ->
                    /\ calls' = [calls EXCEPT ![c]["simulate"] = Bump(@),
                                              ![c]["sign"] = Bump(@)]
                    /\ stages' = Enter(c, <<"simulate">>)
                    /\ Throw(c, "SimulationError")
               [] OTHER ->
                    /\ calls' = Issue(c, "simulate")
                    /\ stages' = Enter(c, <<"simulate">>)
                    /\ Throw(c, "NetworkError")
    /\ UNCHANGED <<kind, caller, signResult, sendStatus, lastStatus, ledger,
                   retval, result, errStatus, callerOut>>
    /\ UNCHANGED marketVars

\* await server.simulateTransaction(transaction); Api.isSimulationError ->
\* throw; assembleTransaction(transaction, simulated)
Simulate(c) ==
    /\ kind[c] = "invoke"
    /\ pc[c] = "simulate"
    /\ calls' = Issue(c, "simulate")
    /\ \E r \in {"ok", "error", "threw"} :
          /\ simResult' = [simResult EXCEPT ![c] = r]
          /\ CASE r = "ok" ->
                    /\ stages' = Enter(c, <<"simulate", "assemble">>)
                    /\ pc' = [pc EXCEPT ![c] = "sign"]
                    /\ err' = err
               [] r = "error" ->
                    /\ stages' = Enter(c, <<"simulate">>)
                    /\ Throw(c, "SimulationError")
               [] OTHER ->
                    /\ stages' = Enter(c, <<"simulate">>)
                    /\ Throw(c, "NetworkError")
    /\ UNCHANGED <<kind, caller, signResult, sendStatus, lastStatus, ledger,
                   retval, result, errStatus, callerOut>>
    /\ UNCHANGED marketVars

\* A declined signature is not noticed: the envelope is submitted anyway.
Sign_SubmitUnsigned(c) ==
    /\ kind[c] = "invoke"
    /\ pc[c] = "sign"
    /\ calls' = Issue(c, "sign")
    /\ stages' = Enter(c, <<"sign">>)
    /\ \E r \in {"signed", "declined"} :
          /\ signResult' = [signResult EXCEPT ![c] = r]
          /\ pc' = [pc EXCEPT ![c] = "send"]
          /\ err' = err
    /\ UNCHANGED <<kind, caller, simResult, sendStatus, lastStatus, ledger,
                   retval, result, errStatus, callerOut>>
    /\ UNCHANGED marketVars

\* await signTransaction(assembled.build().toXDR(), {...});
\* TransactionBuilder.fromXDR(signedTxXdr, ...)
Sign(c) ==
    /\ kind[c] = "invoke"
    /\ pc[c] = "sign"
    /\ calls' = Issue(c, "sign")
    /\ stages' = Enter(c, <<"sign">>)
    /\ \E r \in {"signed", "declined"} :
          /\ signResult' = [signResult EXCEPT ![c] = r]
          /\ IF r = "signed"
             THEN /\ pc' = [pc EXCEPT ![c] = "send"]
                  /\ err' = err
             ELSE Throw(c, "SigningDeclined")
    /\ UNCHANGED <<kind, caller, simResult, sendStatus, lastStatus, ledger,
                   retval, result, errStatus, callerOut>>
    /\ UNCHANGED marketVars

SendStatuses == {"PENDING", "DUPLICATE", "TRY_AGAIN_LATER", "ERROR"}

\* TRY_AGAIN_LATER is treated like PENDING: the call starts polling.
Send_PollAnyway(c) ==
    /\ kind[c] = "invoke"
    /\ pc[c] = "send"
    /\ calls' = Issue(c, "send")
    /\ stages' = Enter(c, <<"submit">>)
    /\ \E r \in SendStatuses \cup {"THREW"} :
          /\ sendStatus' = [sendStatus EXCEPT ![c] = r]
          /\ CASE r \in {"PENDING", "TRY_AGAIN_LATER"} ->
                    /\ ledger' = [ledger EXCEPT ![c] = "NOT_FOUND"]
                    /\ pc' = [pc EXCEPT ![c] = "poll"]
                    /\ err' = err
               [] r = "THREW" ->
                    /\ ledger' = ledger
                    /\ Throw(c, "NetworkError")
               [] OTHER ->
                    /\ ledger' = ledger
                    /\ Throw(c, "SubmissionFailed")
    /\ UNCHANGED <<kind, caller, simResult, signResult, lastStatus, retval,
                   result, errStatus, callerOut>>
    /\ UNCHANGED marketVars

\* await server.sendTransaction(signedTransaction);
\* status === 'PENDING' ? poll : throw 'Transaction submission failed'
Send(c) ==
    /\ kind[c] = "invoke"
    /\ pc[c] = "send"
    /\ calls' = Issue(c, "send")
    /\ stages' = Enter(c, <<"submit">>)
    /\ \E r \in SendStatuses \cup {"THREW"} :
          /\ sendStatus' = [sendStatus EXCEPT ![c] = r]
          /\ CASE r = "PENDING" ->
                    /\ ledger' = [ledger EXCEPT ![c] = "NOT_FOUND"]
                    /\ pc' = [pc EXCEPT ![c] = "poll"]
                    /\ err' = err
               [] r = "THREW" ->
                    /\ ledger' = ledger
                    /\ Throw(c, "NetworkError")
               [] OTHER ->
                    /\ ledger' = ledger
                    /\ Throw(c, "SubmissionFailed")
    /\ UNCHANGED <<kind, caller, simResult, signResult, lastStatus, retval,
                   result, errStatus, callerOut>>
    /\ UNCHANGED marketVars


\* The poll body shared by the variants below: issue getTransaction, record
\* the status r it reported, and continue as `next` says.
PollRequest(c) ==
    /\ kind[c] = "invoke"
    /\ pc[c] = "poll"
    /\ calls' = Issue(c, "get")
    /\ stages' = IF calls[c]["get"] = 0 THEN Enter(c, <<"confirm">>) ELSE stages
    /\ UNCHANGED marketVars

\* const result = getResponse.returnValue;
\* return result ? scValToNative(result) : null
PollReturn(c) ==
    /\ \E rv \in RetVals :
          /\ retval' = [retval EXCEPT ![c] = rv]
          /\ result' = [result EXCEPT ![c] = Decode(rv)]
    /\ pc' = [pc EXCEPT ![c] = "returned"]
    /\ UNCHANGED <<err, errStatus>>

PollFail(c, r) ==
    /\ Throw(c, "TransactionFailed")
    /\ errStatus' = [errStatus EXCEPT ![c] = r]
    /\ UNCHANGED <<result, retval>>

PollAgain(c) ==
    /\ pc' = [pc EXCEPT ![c] = "sleep"]
    /\ UNCHANGED <<result, retval, err, errStatus>>

PollThrew(c) ==
    /\ Throw(c, "NetworkError")
    /\ UNCHANGED <<result, retval, errStatus>>

\* Every status that is not NOT_FOUND counts as success.
Poll_FailedReturns(c) ==
    /\ PollRequest(c)
    /\ \E r \in {ledger[c], "THREW"} :
          /\ lastStatus' = [lastStatus EXCEPT ![c] = r]
          /\ CASE r = "NOT_FOUND" -> PollAgain(c)
               [] r = "THREW"     -> PollThrew(c)
               [] OTHER           -> PollReturn(c)
    /\ UNCHANGED <<kind, caller, simResult, signResult, sendStatus, ledger,
                   callerOut>>

\* The loop gives up with a timeout after two polls.
Poll_Bounded(c) ==
    /\ PollRequest(c)
    /\ \E r \in {ledger[c], "THREW"} :
          /\ lastStatus' = [lastStatus EXCEPT ![c] = r]
          /\ CASE r = "NOT_FOUND" ->
                    IF calls[c]["get"] >= 1
                    THEN /\ Throw(c, "Timeout")
                         /\ UNCHANGED <<result, retval, errStatus>>
                    ELSE PollAgain(c)
               [] r = "SUCCESS"   -> PollReturn(c)
               [] r = "THREW"     -> PollThrew(c)
               [] OTHER           -> PollFail(c, r)
    /\ UNCHANGED <<kind, caller, simResult, signResult, sendStatus, ledger,
                   callerOut>>

\* The loop waits for SUCCESS: while (status !== SUCCESS).
Poll_UntilSuccess(c) ==
    /\ PollRequest(c)
    /\ \E r \in {ledger[c], "THREW"} :
          /\ lastStatus' = [lastStatus EXCEPT ![c] = r]
          /\ CASE r = "SUCCESS"   -> PollReturn(c)
               [] r = "THREW"     -> PollThrew(c)
               [] OTHER           -> PollAgain(c)
    /\ UNCHANGED <<kind, caller, simResult, signResult, sendStatus, ledger,
                   callerOut>>

\* await server.getTransaction(sendResponse.hash), the loop test and the
\* code after the loop
Poll(c) ==
    /\ PollRequest(c)
    /\ \E r \in {ledger[c], "THREW"} :
          /\ lastStatus' = [lastStatus EXCEPT ![c] = r]
          /\ CASE r = "NOT_FOUND" -> PollAgain(c)
               [] r = "SUCCESS"   -> PollReturn(c)
               [] r = "THREW"     -> PollThrew(c)
               [] OTHER           -> PollFail(c, r)
    /\ UNCHANGED <<kind, caller, simResult, signResult, sendStatus, ledger,
                   callerOut>>

\* await new Promise(resolve => setTimeout(resolve, 1000))
Sleep(c) ==
    /\ kind[c] = "invoke"
    /\ pc[c] = "sleep"
    /\ pc' = [pc EXCEPT ![c] = "poll"]
    /\ UNCHANGED <<kind, caller, calls, stages, simResult, signResult,
                   sendStatus, lastStatus, ledger, retval, result, err,
                   errStatus, callerOut>>
    /\ UNCHANGED marketVars

\* The ledger (external): a submitted transaction is unknown until it is
\* included, then it is SUCCESS or FAILED for good.
LedgerSettle(c) ==
    /\ ledger[c] = "NOT_FOUND"
    /\ \E st \in {"SUCCESS", "FAILED"} : ledger' = [ledger EXCEPT ![c] = st]
    /\ UNCHANGED <<kind, caller, pc, calls, stages, simResult, signResult,
                   sendStatus, lastStatus, retval, result, err, errStatus,
                   callerOut>>
    /\ UNCHANGED marketVars

\* --------------------------------------------- readContract (stellar.ts)
ReadWrappers == {"getTokenBalance", "getCompanyInfo"}

\* getTokenBalance / getCompanyInfo call readContract: new Contract throws
\* on a malformed id, otherwise the call suspends at server.getAccount.
StartRead(c) ==
    /\ pc[c] = "idle"
    /\ kind' = [kind EXCEPT ![c] = "read"]
    /\ \E w \in ReadWrappers : caller' = [caller EXCEPT ![c] = w]
    /\ \E validId \in BOOLEAN :
          IF validId
          THEN /\ pc' = [pc EXCEPT ![c] = "getAccount"]
               /\ err' = err
          ELSE Throw(c, "InvalidAddress")
    /\ UNCHANGED <<calls, stages, simResult, signResult, sendStatus,
                   lastStatus, ledger, retval, result, errStatus, callerOut>>
    /\ UNCHANGED marketVars

\* await server.getAccount('GAAA...WHF'); contract.call; TransactionBuilder
ReadGetAccount(c) ==
    /\ kind[c] = "read"
    /\ pc[c] = "getAccount"
    /\ calls' = Issue(c, "getAccount")
    /\ \E r \in {"ok", "AccountNotFound", "BuildFailure"} :
          CASE r = "ok" ->
                 /\ stages' = Enter(c, <<"account", "build">>)
                 /\ pc' = [pc EXCEPT ![c] = "simulate"]
                 /\ err' = err
            [] r = "AccountNotFound" ->
                 /\ stages' = Enter(c, <<"account">>)
                 /\ Throw(c, r)
            [] OTHER ->
                 /\ stages' = Enter(c, <<"account", "build">>)
                 /\ Throw(c, r)
    /\ UNCHANGED <<kind, caller, simResult, signResult, sendStatus, lastStatus,
                   ledger, retval, result, errStatus, callerOut>>
    /\ UNCHANGED marketVars

\* The read path reuses the orchestrator's tail: a successful simulation is
\* assembled and handed to the signer.
ReadSimulate_Signs(c) ==
    /\ kind[c] = "read"
    /\ pc[c] = "simulate"
    /\ \E r \in {"ok", "error", "threw"}, rv \in RetVals :
          /\ simResult' = [simResult EXCEPT ![c] = r]
          /\ stages' = Enter(c, <<"simulate">>)
          /\ CASE r = "ok" ->
                    /\ calls' = [calls EXCEPT ![c]["simulate"] = Bump(@),
                                              ![c]["sign"] = Bump(@)]
                    /\ retval' = [retval EXCEPT ![c] = rv]
                    /\ result' = [result EXCEPT ![c] = Decode(rv)]
                    /\ pc' = [pc EXCEPT ![c] = "returned"]
                    /\ err' = err
               [] r = "error" ->
                    /\ calls' = Issue(c, "simulate")
                    /\ Throw(c, "SimulationError")
                    /\ UNCHANGED <<retval, result>>
               [] OTHER ->
                    /\ calls' = Issue(c, "simulate")
                    /\ Throw(c, "NetworkError")
                    /\ UNCHANGED <<retval, result>>
    /\ UNCHANGED <<kind, caller, signResult, sendStatus, lastStatus, ledger,
                   errStatus, callerOut>>
    /\ UNCHANGED marketVars

\* await server.simulateTransaction(transaction); Api.isSimulationError ->
\* throw; return result ? scValToNative(result) : null
ReadSimulate(c) ==
    /\ kind[c] = "read"
    /\ pc[c] = "simulate"
    /\ calls' = Issue(c, "simulate")
    /\ \E r \in {"ok", "error", "threw"}, rv \in RetVals :
          /\ simResult' = [simResult EXCEPT ![c] = r]
          /\ stages' = Enter(c, <<"simulate">>)
          /\ CASE r = "ok" ->
                    /\ retval' = [retval EXCEPT ![c] = rv]
                    /\ result' = [result EXCEPT ![c] = Decode(rv)]
                    /\ pc' = [pc EXCEPT ![c] = "returned"]
                    /\ err' = err
               [] r = "error" ->
                    /\ Throw(c, "SimulationError")
                    /\ UNCHANGED <<retval, result>>
               [] OTHER ->
                    /\ Throw(c, "NetworkError")
                    /\ UNCHANGED <<retval, result>>
    /\ UNCHANGED <<kind, caller, signResult, sendStatus, lastStatus, ledger,
                   errStatus, callerOut>>
    /\ UNCHANGED marketVars

\* ------------------------------------------------------------ the callers
Finish(c, out) ==
    /\ callerOut[c].kind = "none"
    /\ Terminated(c)
    /\ callerOut' = [callerOut EXCEPT ![c] = out]
    /\ UNCHANGED <<kind, caller, pc, calls, stages, simResult, signResult,
                   sendStatus, lastStatus, ledger, retval, result, err,
                   errStatus>>
    /\ UNCHANGED marketVars

\* HomePage.handleInvest: await mintTokens(...) in try; alert on success,
\* catch (error) -> alert(`Investment failed: ${error.message}`)
handleInvest(c) ==
    /\ caller[c] = "handleInvest"
    /\ Finish(c, IF pc[c] = "returned"
                 THEN [kind |-> "alert_ok", val |-> NullV, msg |-> "none"]
                 ELSE [kind |-> "alert_err", val |-> NullV, msg |-> err[c]])

\* contractService.getTokenBalance: return bigIntToNumber(result);
\* catch (error) -> return 0
getTokenBalance(c) ==
    /\ caller[c] = "getTokenBalance"
    /\ Finish(c, IF pc[c] = "returned"
                 THEN [kind |-> "value",
                       val |-> [t |-> "number", v |-> bigIntToNumber(result[c])],
                       msg |-> "none"]
                 ELSE [kind |-> "value",
                       val |-> [t |-> "number", v |-> 0],
                       msg |-> "none"])

\* contractService.getCompanyInfo: if (!result) return null; return {...};
\* catch (error) -> return null
getCompanyInfo(c) ==
    /\ caller[c] = "getCompanyInfo"
    /\ Finish(c, IF pc[c] = "returned" /\ Truthy(result[c])
                 THEN [kind |-> "value",
                       val |-> [t |-> "object", v |-> result[c].v],
                       msg |-> "none"]
                 ELSE [kind |-> "value", val |-> NullV, msg |-> "none"])

\* ------------------------------ the off-chain store (contractService.ts)
MaxRows == 2           \* rows a table can hold
MaxTokens == 2         \* tokens offered by one listing are at most this

Contracts == {"CA", "CB"}
Seller == "GSELLER"
Sellers == {Seller}
Owner == "GOWNER"

\* Outcome of the transport to the store.
DbOutcomes == {"ok", "down"}

Range(f) == {f[i] : i \in DOMAIN f}

\* The rows ids of table t, in one of the orders that
\* .order('created_at', { ascending: true }) can give (ties in any order).
Ordered_Ascending(t, ids) ==
        {q \in [1..Cardinality(ids) -> ids] :
            /\ \A i, j \in DOMAIN q : i # j => q[i] # q[j]
            /\ \A i, j \in DOMAIN q :
                  i < j => t[q[i]].created_at <= t[q[j]].created_at}

\* The rows ids of table t, in one of the orders that
\* .order('created_at', { ascending: false }) can give (ties in any order).
Ordered(t, ids) ==
        {q \in [1..Cardinality(ids) -> ids] :
            /\ \A i, j \in DOMAIN q : i # j => q[i] # q[j]
            /\ \A i, j \in DOMAIN q :
                  i < j => t[q[i]].created_at >= t[q[j]].created_at}

\* The table has no CHECK constraints.
ChecksHold_None(tokens, price) == TRUE

\* CHECK (tokens_for_sale > 0), CHECK (price_per_token > 0)
ChecksHold(tokens, price) == tokens > 0 /\ price > 0

\* The update also puts the listing back on sale.
SetQuantity_Reactivates(t, id, newQuantity) ==
    [i \in DOMAIN t |->
        IF t[i].id = id
        THEN [t[i] EXCEPT !.tokens_for_sale = newQuantity, !.is_active = TRUE]
        ELSE t[i]]

\* .update({ tokens_for_sale: newQuantity }).eq('id', id)
SetQuantity(t, id, newQuantity) ==
    [i \in DOMAIN t |->
        IF t[i].id = id THEN [t[i] EXCEPT !.tokens_for_sale = newQuantity]
        ELSE t[i]]

\* The update flips the flag instead of clearing it.
SetInactive_Toggle(t, id) ==
    [i \in DOMAIN t |->
        IF t[i].id = id THEN [t[i] EXCEPT !.is_active = ~@] ELSE t[i]]

\* .update({ is_active: false }).eq('id', id)
SetInactive(t, id) ==
    [i \in DOMAIN t |->
        IF t[i].id = id THEN [t[i] EXCEPT !.is_active = FALSE] ELSE t[i]]

\* the ResaleListing a stored row is mapped to (contract_id: l.company_id)
ListingOf(row) ==
    [id |-> row.id, contract_id |-> row.company_id,
     seller_wallet |-> row.seller_wallet,
     tokens_for_sale |-> row.tokens_for_sale,
     price_per_token |-> row.price_per_token,
     is_active |-> row.is_active, created_at |-> row.created_at]

\* what a facade call gave its caller
Reply(op, id, cause, out, rows) ==
    [op |-> op, id |-> id, asked |-> "none", cause |-> cause, out |-> out,
     rows |-> rows]

\* The reply of createResaleListing, with the is_active its caller passed.
Created(listing, r) ==
    [r EXCEPT !.asked = IF listing.is_active THEN "active" ELSE "inactive"]

\* The caller's is_active is stored as passed.
createResaleListing_AsPassed(listing, db) ==
    /\ LET t == Len(listings) + 1 IN
          IF db = "ok" /\ ChecksHold(listing.tokens_for_sale, listing.price_per_token)
          THEN LET row == [id |-> Len(listings) + 1,
                           company_id |-> listing.contract_id,
                           seller_wallet |-> listing.seller_wallet,
                           tokens_for_sale |-> listing.tokens_for_sale,
                           price_per_token |-> listing.price_per_token,
                           is_active |-> listing.is_active,
                           created_at |-> t]
               IN  /\ listings' = Append(listings, row)
                   /\ reply' = Created(listing,
                           Reply("createResaleListing", row.id, "ok", "value",
                                 <<ListingOf(row)>>))
          ELSE /\ UNCHANGED listings
               /\ reply' = Created(listing,
                           Reply("createResaleListing", 0,
                                 IF db = "ok" THEN "check" ELSE db, "throw", <<>>))
    /\ UNCHANGED companies

\* createResaleListing: insert({..., is_active: true}).select().single();
\* created_at defaults to NOW(): the n-th row of a table is stamped n.
\* if (error) throw error; return the row
createResaleListing(listing, db) ==
    /\ LET t == Len(listings) + 1 IN
          IF db = "ok" /\ ChecksHold(listing.tokens_for_sale, listing.price_per_token)
          THEN LET row == [id |-> Len(listings) + 1,
                           company_id |-> listing.contract_id,
                           seller_wallet |-> listing.seller_wallet,
                           tokens_for_sale |-> listing.tokens_for_sale,
                           price_per_token |-> listing.price_per_token,
                           is_active |-> TRUE,
                           created_at |-> t]
               IN  /\ listings' = Append(listings, row)
                   /\ reply' = Created(listing,
                           Reply("createResaleListing", row.id, "ok", "value",
                                 <<ListingOf(row)>>))
          ELSE /\ UNCHANGED listings
               /\ reply' = Created(listing,
                           Reply("createResaleListing", 0,
                                 IF db = "ok" THEN "check" ELSE db, "throw", <<>>))
    /\ UNCHANGED companies

\* updateResaleListingQuantity: update(...).eq('id', id); if (error) throw
updateResaleListingQuantity(id, newQuantity, db) ==
    /\ IF db = "ok" /\ (id \in DOMAIN listings =>
                            ChecksHold(newQuantity, listings[id].price_per_token))
       THEN /\ listings' = SetQuantity(listings, id, newQuantity)
            /\ reply' = Reply("updateResaleListingQuantity", id, "ok", "ok",
                           <<>>)
       ELSE /\ listings' = listings
            /\ reply' = Reply("updateResaleListingQuantity", id,
                           IF db = "ok" THEN "check" ELSE db, "throw", <<>>)
    /\ UNCHANGED companies

\* The row is deleted instead of being flagged.
deactivateResaleListing_Deletes(id, db) ==
    /\ IF db = "ok"
       THEN /\ listings' = SelectSeq(listings, LAMBDA row : row.id # id)
            /\ reply' = Reply("deactivateResaleListing", id, "ok", "ok",
                           <<>>)
       ELSE /\ listings' = listings
            /\ reply' = Reply("deactivateResaleListing", id, db, "throw",
                           <<>>)
    /\ UNCHANGED companies

\* deactivateResaleListing: update({ is_active: false }).eq('id', id);
\* if (error) throw
deactivateResaleListing(id, db) ==
    /\ IF db = "ok"
       THEN /\ listings' = SetInactive(listings, id)
            /\ reply' = Reply("deactivateResaleListing", id, "ok", "ok",
                           <<>>)
       ELSE /\ listings' = listings
            /\ reply' = Reply("deactivateResaleListing", id, db, "throw",
                           <<>>)
    /\ UNCHANGED companies

\* .eq('is_active', true)
ActiveIds == {i \in DOMAIN listings : listings[i].is_active}

\* .from('companies').select('*')
CompanyIds == DOMAIN companies

\* The rows come back oldest first.
getActiveResaleListings_Oldest(db) ==
    /\ IF db = "ok"
       THEN \E q \in Ordered_Ascending(listings, ActiveIds) :
               reply' = Reply("getActiveResaleListings", 0, "ok", "value",
                           [i \in DOMAIN q |-> ListingOf(listings[q[i]])])
       ELSE reply' = Reply("getActiveResaleListings", 0, db, "value",
                           <<>>)
    /\ UNCHANGED <<listings, companies>>

\* getActiveResaleListings: select('*').eq('is_active', true)
\* .order('created_at', { ascending: false }); if (error) return []
getActiveResaleListings(db) ==
    /\ IF db = "ok"
       THEN \E q \in Ordered(listings, ActiveIds) :
               reply' = Reply("getActiveResaleListings", 0, "ok", "value",
                           [i \in DOMAIN q |-> ListingOf(listings[q[i]])])
       ELSE reply' = Reply("getActiveResaleListings", 0, db, "value",
                           <<>>)
    /\ UNCHANGED <<listings, companies>>

\* getResaleListings: select('*').order('created_at', { ascending: false });
\* if (error) return []
getResaleListings(db) ==
    /\ IF db = "ok"
       THEN \E q \in Ordered(listings, DOMAIN listings) :
               reply' = Reply("getResaleListings", 0, "ok", "value",
                           [i \in DOMAIN q |-> ListingOf(listings[q[i]])])
       ELSE reply' = Reply("getResaleListings", 0, db, "value", <<>>)
    /\ UNCHANGED <<listings, companies>>

\* getResaleListingsByContract: select('*').eq('company_id', contractId)
\* .eq('is_active', true).order('created_at', { ascending: false });
\* if (error) return []
getResaleListingsByContract(contractId, db) ==
    /\ IF db = "ok"
       THEN \E q \in Ordered(listings,
                       {i \in ActiveIds : listings[i].company_id = contractId}) :
               reply' = Reply("getResaleListingsByContract", 0, "ok", "value",
                           [i \in DOMAIN q |-> ListingOf(listings[q[i]])])
       ELSE reply' = Reply("getResaleListingsByContract", 0, db, "value", <<>>)
    /\ UNCHANGED <<listings, companies>>

\* the CompanyMetadata a stored row is mapped to
\* (contractId: c.contract_id || c.wallet_address)
MetadataOf(row) ==
    [contractId |-> IF row.contract_id # "" THEN row.contract_id
                    ELSE row.wallet_address,
     owner_wallet |-> row.wallet_address, created_at |-> row.created_at]

\* saveCompanyMetadata: insert({...}); if (error) throw error
saveCompanyMetadata(metadata, db) ==
    /\ LET t == Len(companies) + 1 IN
          IF db = "ok"
          THEN /\ companies' = Append(companies,
                      [id |-> Len(companies) + 1,
                       contract_id |-> metadata.contractId,
                       wallet_address |-> metadata.owner_wallet,
                       created_at |-> t])
               /\ reply' = Reply("saveCompanyMetadata", 0, "ok", "ok", <<>>)
          ELSE /\ UNCHANGED companies
               /\ reply' = Reply("saveCompanyMetadata", 0, db, "throw", <<>>)
    /\ UNCHANGED listings

\* getCompaniesMetadata: select('*').order('created_at', {ascending: false});
\* if (error) return []
getCompaniesMetadata(db) ==
    /\ IF db = "ok"
       THEN \E q \in Ordered(companies, CompanyIds) :
               reply' = Reply("getCompaniesMetadata", 0, "ok", "value",
                              [i \in DOMAIN q |-> MetadataOf(companies[q[i]])])
       ELSE reply' = Reply("getCompaniesMetadata", 0, db, "value", <<>>)
    /\ UNCHANGED <<listings, companies>>

\* getCompanyMetadata: select('*').or(contract_id.eq.X, wallet_address.eq.X)
\* .single(); if (error || !data) return null
getCompanyMetadata(contractId, db) ==
    /\ LET found == {i \in DOMAIN companies :
                        \/ companies[i].contract_id = contractId
                        \/ companies[i].wallet_address = contractId}
       IN  CASE db # "ok" ->
                  reply' = Reply("getCompanyMetadata", 0, db, "null", <<>>)
             [] Cardinality(found) = 0 ->
                  reply' = Reply("getCompanyMetadata", 0, "notfound", "null", <<>>)
             [] Cardinality(found) > 1 ->
                  reply' = Reply("getCompanyMetadata", 0, "multiple", "null", <<>>)
             [] OTHER ->
                  reply' = Reply("getCompanyMetadata", 0, "ok", "value",
                                 <<MetadataOf(companies[CHOOSE i \in found : TRUE])>>)
    /\ UNCHANGED <<listings, companies>>

\* ------------------------------------------------------ the specification
\* One step of call c, whatever it is.
Step(c) ==
    \/ StartInvoke(c)
    \/ GetAccount(c)
    \/ Simulate(c)
    \/ Sign(c)
    \/ Send(c)
    \/ Poll(c)
    \/ Sleep(c)
    \/ LedgerSettle(c)
    \/ StartRead(c)
    \/ ReadGetAccount(c)
    \/ ReadSimulate(c)
    \/ handleInvest(c)
    \/ getTokenBalance(c)
    \/ getCompanyInfo(c)

Next == \E c \in Calls : Step(c)

Spec == Init /\ [][Next]_vars

\* The event loop runs every timer callback and settles every pending
\* request, so a suspended poll loop is always resumed.
LiveSpec ==
    /\ Spec
    /\ \A c \in Calls : WF_vars(Poll(c)) /\ WF_vars(Sleep(c))

\* ------------------------------------------------- the store facade alone
\* Any caller may call any facade function with any argument.
ListingInputs ==
    [contract_id : {"CA"}, seller_wallet : {Seller},
     tokens_for_sale : 0..MaxTokens, price_per_token : 0..1,
     is_active : BOOLEAN]

StoreCreate ==
    /\ Len(listings) < MaxRows
    /\ \E listing \in ListingInputs, db \in DbOutcomes :
          createResaleListing(listing, db)
    /\ UNCHANGED <<callVars, pageVars, appVars>>

StoreUpdate ==
    /\ \E id \in 1..MaxRows, q \in 0..MaxTokens, db \in DbOutcomes :
          updateResaleListingQuantity(id, q, db)
    /\ UNCHANGED <<callVars, pageVars, appVars>>

StoreDeactivate ==
    /\ \E id \in 1..MaxRows, db \in DbOutcomes : deactivateResaleListing(id, db)
    /\ UNCHANGED <<callVars, pageVars, appVars>>

StoreGetActive ==
    /\ \E db \in DbOutcomes : getActiveResaleListings(db)
    /\ UNCHANGED <<callVars, pageVars, appVars>>

StoreSaveCompany ==
    /\ Len(companies) < MaxRows
    /\ \E id \in Contracts, db \in DbOutcomes :
          saveCompanyMetadata([contractId |-> id, owner_wallet |-> Owner], db)
    /\ UNCHANGED <<callVars, pageVars, appVars>>

StoreGetCompanies ==
    /\ \E db \in DbOutcomes : getCompaniesMetadata(db)
    /\ UNCHANGED <<callVars, pageVars, appVars>>

StoreGetCompany ==
    /\ \E id \in Contracts, db \in DbOutcomes : getCompanyMetadata(id, db)
    /\ UNCHANGED <<callVars, pageVars, appVars>>

StoreGetAll ==
    /\ \E db \in DbOutcomes : getResaleListings(db)
    /\ UNCHANGED <<callVars, pageVars, appVars>>

StoreGetByContract ==
    /\ \E id \in Contracts, db \in DbOutcomes :
          getResaleListingsByContract(id, db)
    /\ UNCHANGED <<callVars, pageVars, appVars>>

StoreNext ==
    \/ StoreGetAll
    \/ StoreGetByContract
    \/ StoreCreate
    \/ StoreUpdate
    \/ StoreDeactivate
    \/ StoreGetActive
    \/ StoreSaveCompany
    \/ StoreGetCompanies
    \/ StoreGetCompany

StoreSpec == Init /\ [][StoreNext]_vars

\* ---------------------------------------- the resale market (HomePage.tsx)
\* Each browser session b runs its contract call on call slot b.
NoCall(c) ==
    /\ kind' = [kind EXCEPT ![c] = "none"]
    /\ caller' = [caller EXCEPT ![c] = "none"]
    /\ pc' = [pc EXCEPT ![c] = "idle"]
    /\ calls' = [calls EXCEPT ![c] = [r \in Requests |-> 0]]
    /\ stages' = [stages EXCEPT ![c] = <<>>]
    /\ simResult' = [simResult EXCEPT ![c] = "none"]
    /\ signResult' = [signResult EXCEPT ![c] = "none"]
    /\ sendStatus' = [sendStatus EXCEPT ![c] = "NONE"]
    /\ lastStatus' = [lastStatus EXCEPT ![c] = "NONE"]
    /\ ledger' = [ledger EXCEPT ![c] = "NONE"]
    /\ retval' = [retval EXCEPT ![c] = NoVal]
    /\ result' = [result EXCEPT ![c] = NullV]
    /\ err' = [err EXCEPT ![c] = "none"]
    /\ errStatus' = [errStatus EXCEPT ![c] = "NONE"]
    /\ callerOut' = [callerOut EXCEPT ![c] = NoOut]
    /\ buyTokens' = [buyTokens EXCEPT ![c] = 0]

\* CreateListingPage.handleCreateResaleListing: the form is refused when
\* getTokenBalance reports fewer tokens than offered (a quantity of 0 is
\* never refused); otherwise createResaleListing({..., is_active: true}).
\* Each seller of Sellers lists once.
handleCreateResaleListing(s) ==
    /\ \A i \in DOMAIN listings : listings[i].seller_wallet # s
    /\ \E tokens \in 0..MaxTokens, balance \in 0..MaxTokens, db \in DbOutcomes :
          /\ ~(balance < tokens)
          /\ createResaleListing([contract_id |-> "CA", seller_wallet |-> s,
                                  tokens_for_sale |-> tokens,
                                  price_per_token |-> 1, is_active |-> TRUE], db)
    /\ UNCHANGED <<callVars, pageVars, appVars>>

\* loadResaleListings: setResaleListings(await getActiveResaleListings()),
\* run when the page is shown (the company name added to each entry is not
\* part of the listing).
loadResaleListings(b) ==
    /\ pc[b] = "idle"
    /\ selectedResale[b] = NoListing
    /\ \E db \in DbOutcomes : getActiveResaleListings(db)
    /\ resaleListings' = [resaleListings EXCEPT ![b] = reply'.rows]
    /\ UNCHANGED <<callVars, selectedResale, buyTokens, appVars>>

\* onClick={() => setSelectedResale(listing)} on a listed entry
SelectResale(b) ==
    /\ pc[b] = "idle"
    /\ selectedResale[b] = NoListing
    /\ \E i \in DOMAIN resaleListings[b] :
          selectedResale' = [selectedResale EXCEPT ![b] = resaleListings[b][i]]
    /\ UNCHANGED <<callVars, storeVars, resaleListings, buyTokens, appVars>>

\* onClose={() => setSelectedResale(null)}
CloseModal(b) ==
    /\ pc[b] = "idle"
    /\ selectedResale[b] # NoListing
    /\ selectedResale' = [selectedResale EXCEPT ![b] = NoListing]
    /\ UNCHANGED <<callVars, storeVars, resaleListings, buyTokens, appVars>>

\* InvestModal lets the buyer choose 1..availableTokens tokens, where
\* availableTokens = selectedResale.tokens_for_sale, and calls
\* handleBuyResale(tokens), which calls transferTokensWithPayment ->
\* invokeContract(buyer, contract_id, 'transfer_with_payment', ...).
BuyResale(b) ==
    /\ pc[b] = "idle"
    /\ selectedResale[b] # NoListing
    /\ \E tokens \in 1..selectedResale[b].tokens_for_sale :
          buyTokens' = [buyTokens EXCEPT ![b] = tokens]
    /\ kind' = [kind EXCEPT ![b] = "invoke"]
    /\ caller' = [caller EXCEPT ![b] = "handleBuyResale"]
    /\ \E validId \in BOOLEAN :
          IF validId
          THEN /\ pc' = [pc EXCEPT ![b] = "getAccount"]
               /\ err' = err
          ELSE Throw(b, "InvalidAddress")
    /\ UNCHANGED <<calls, stages, simResult, signResult, sendStatus,
                   lastStatus, ledger, retval, result, errStatus, callerOut>>
    /\ UNCHANGED <<storeVars, resaleListings, selectedResale, appVars>>

\* The settlement re-reads the listing and subtracts from the stored
\* quantity.
SettleResale_Reread(b) ==
    /\ caller[b] = "handleBuyResale"
    /\ pc[b] = "returned"
    /\ callerOut[b].kind = "none"
    /\ LET id == selectedResale[b].id
           remainingTokens == listings[id].tokens_for_sale - buyTokens[b]
       IN  /\ \E db \in DbOutcomes :
                 IF remainingTokens > 0
                 THEN updateResaleListingQuantity(id, remainingTokens, db)
                 ELSE deactivateResaleListing(id, db)
           /\ callerOut' = [callerOut EXCEPT ![b] =
                 IF reply'.out = "throw"
                 THEN [kind |-> "alert_err", val |-> NullV, msg |-> reply'.cause]
                 ELSE [kind |-> "alert_ok", val |-> NullV, msg |-> "none"]]
    /\ UNCHANGED <<kind, caller, pc, calls, stages, simResult, signResult,
                   sendStatus, lastStatus, ledger, retval, result, err,
                   errStatus>>
    /\ UNCHANGED <<pageVars, appVars>>

\* handleBuyResale after transferTokensWithPayment returned:
\* remainingTokens = selectedResale.tokens_for_sale - tokens;
\* remainingTokens > 0 ? updateResaleListingQuantity(id, remainingTokens)
\*                     : deactivateResaleListing(id); alert(success);
\* a store error goes to catch -> alert('Purchase failed: ...')
SettleResale(b) ==
    /\ caller[b] = "handleBuyResale"
    /\ pc[b] = "returned"
    /\ callerOut[b].kind = "none"
    /\ LET id == selectedResale[b].id
           remainingTokens == selectedResale[b].tokens_for_sale - buyTokens[b]
       IN  /\ \E db \in DbOutcomes :
                 IF remainingTokens > 0
                 THEN updateResaleListingQuantity(id, remainingTokens, db)
                 ELSE deactivateResaleListing(id, db)
           /\ callerOut' = [callerOut EXCEPT ![b] =
                 IF reply'.out = "throw"
                 THEN [kind |-> "alert_err", val |-> NullV, msg |-> reply'.cause]
                 ELSE [kind |-> "alert_ok", val |-> NullV, msg |-> "none"]]
    /\ UNCHANGED <<kind, caller, pc, calls, stages, simResult, signResult,
                   sendStatus, lastStatus, ledger, retval, result, err,
                   errStatus>>
    /\ UNCHANGED <<pageVars, appVars>>

\* The listing is deactivated although the transfer failed.
BuyFailed_WritesAnyway(b) ==
    /\ caller[b] = "handleBuyResale"
    /\ pc[b] = "failed"
    /\ callerOut[b].kind = "none"
    /\ deactivateResaleListing(selectedResale[b].id, "ok")
    /\ callerOut' = [callerOut EXCEPT ![b] =
          [kind |-> "alert_err", val |-> NullV, msg |-> err[b]]]
    /\ UNCHANGED <<kind, caller, pc, calls, stages, simResult, signResult,
                   sendStatus, lastStatus, ledger, retval, result, err,
                   errStatus>>
    /\ UNCHANGED <<pageVars, appVars>>

\* handleBuyResale when transferTokensWithPayment threw:
\* catch (error) -> alert(`Purchase failed: ${error.message}`)
BuyFailed(b) ==
    /\ caller[b] = "handleBuyResale"
    /\ pc[b] = "failed"
    /\ Finish(b, [kind |-> "alert_err", val |-> NullV, msg |-> err[b]])

\* The buyer dismisses the alert and handleBuyResale runs to its end: after
\* a success setSelectedResale(null) and loadData(); after a failure the
\* modal's onClose() alone.
AlertDismissed(b) ==
    /\ caller[b] = "handleBuyResale"
    /\ callerOut[b].kind # "none"
    /\ selectedResale' = [selectedResale EXCEPT ![b] = NoListing]
    /\ IF callerOut[b].kind = "alert_ok"
       THEN /\ \E db \in DbOutcomes : getActiveResaleListings(db)
            /\ resaleListings' = [resaleListings EXCEPT ![b] = reply'.rows]
       ELSE UNCHANGED <<storeVars, resaleListings>>
    /\ NoCall(b)
    /\ UNCHANGED appVars

MarketStep(b) ==
    \/ loadResaleListings(b)
    \/ SelectResale(b)
    \/ CloseModal(b)
    \/ BuyResale(b)
    \/ GetAccount(b)
    \/ Simulate(b)
    \/ Sign(b)
    \/ Send(b)
    \/ Poll(b)
    \/ Sleep(b)
    \/ LedgerSettle(b)
    \/ SettleResale(b)
    \/ BuyFailed(b)
    \/ AlertDismissed(b)

MarketNext ==
    \/ \E s \in Sellers : handleCreateResaleListing(s)
    \/ \E b \in Sessions : MarketStep(b)

\* Both sessions are open, nothing is listed yet.
MarketOpen == CallsInit(Sessions) /\ MarketInit /\ AppInit

MarketSpec == MarketOpen /\ [][MarketNext]_vars

\* ------------------------------------------------ the codec on its own
\* A number handed to numberToScVal by a wrapper, or an i128 the ledger
\* returned, goes through scValToNative and bigIntToNumber.
codecRest == <<callVars, storeVars, pageVars, shown, sale, form, server, wallet>>

CodecInit ==
    /\ CallsInit(Calls)
    /\ MarketInit
    /\ shown = NoShown
    /\ sale = NoSale
    /\ form = NoForms
    /\ server = NoServer
    /\ wallet = NoWallet
    /\ codec \in {[NoCodec EXCEPT !.stage = "number", !.given = "number",
                                  !.src = n] : n \in Numbers}
             \cup {[NoCodec EXCEPT !.stage = "scval", !.given = "ledger",
                                   !.src = n,
                                   !.sc = [type |-> "i128", val |-> n]] :
                      n \in CodecIntegers}

CodecEncode ==
    /\ codec.stage = "number"
    /\ codec' = [codec EXCEPT !.stage = "scval", !.sc = numberToScVal(codec.src)]
    /\ UNCHANGED codecRest

CodecToNative ==
    /\ codec.stage = "scval"
    /\ codec' = [codec EXCEPT !.stage = "native", !.native = Decode(codec.sc)]
    /\ UNCHANGED codecRest

CodecToNumber ==
    /\ codec.stage = "native"
    /\ codec' = [codec EXCEPT !.stage = "done",
                              !.out = bigIntToNumber(codec.native)]
    /\ UNCHANGED codecRest

CodecNext ==
    \/ CodecEncode
    \/ CodecToNative
    \/ CodecToNumber

CodecSpec == CodecInit /\ [][CodecNext]_vars

\* --------------------------------- HomePage.loadCompanies, one company
\* The contract holds total_supply = supply and the owner's balance; the two
\* reads of loadCompanies go through readContract and can each fail.
shownRest == <<callVars, storeVars, pageVars, codec, sale, form, server, wallet>>

ReadOutcomes == {"ok", "absent", "failed"}

\* what getCompanyInfo returns: null after a failed read or an empty result,
\* otherwise the info with total_supply: bigIntToNumber(result.total_supply)
CompanyInfoOf(outcome, supply) ==
    IF outcome = "ok"
    THEN [t |-> "object", v |-> bigIntToNumber([t |-> "bigint", v |-> supply])]
    ELSE NullV

\* what getTokenBalance returns: bigIntToNumber(result), 0 after a failed read
TokenBalanceOf(outcome, balance) ==
    CASE outcome = "ok"     -> bigIntToNumber([t |-> "bigint", v |-> balance])
      [] outcome = "absent" -> bigIntToNumber(NullV)
      [] OTHER              -> 0

LoadInit ==
    /\ CallsInit(Calls)
    /\ MarketInit
    /\ codec = NoCodec
    /\ sale = NoSale
    /\ form = NoForms
    /\ server = NoServer
    /\ wallet = NoWallet
    /\ shown \in {[NoShown EXCEPT !.stage = "info", !.supply = ts,
                                  !.balance = b] :
                     ts \in 0..Pow2(MantissaBits + 1), b \in 0..Pow2(MantissaBits + 1)}
    /\ shown.balance <= shown.supply

\* const onChainInfo = await getCompanyInfo(meta.contractId)
LoadInfo ==
    /\ shown.stage = "info"
    /\ \E outcome \in ReadOutcomes :
          shown' = [shown EXCEPT !.stage = "balance", !.infoRead = outcome,
                       !.onChainInfo = CompanyInfoOf(outcome, shown.supply)]
    /\ UNCHANGED shownRest

\* const ownerBalance = await getTokenBalance(meta.contractId, owner_wallet);
\* tokensSold = onChainInfo ? Number(total_supply) - Number(ownerBalance) : 0
LoadBalance ==
    /\ shown.stage = "balance"
    /\ \E outcome \in ReadOutcomes :
          LET ownerBalance == TokenBalanceOf(outcome, shown.balance)
          IN  shown' = [shown EXCEPT
                  !.stage = "done", !.balanceRead = outcome,
                  !.ownerBalance = ownerBalance,
                  !.tokensSold = IF Truthy(shown.onChainInfo)
                                 THEN shown.onChainInfo.v - ownerBalance
                                 ELSE 0]
    /\ UNCHANGED shownRest

LoadNext ==
    \/ LoadInfo
    \/ LoadBalance

LoadSpec == LoadInit /\ [][LoadNext]_vars

\* ---------------------- selling tokens (CreateListingPage, MyInvestmentsPage)
\* One seller holds sale.chain tokens of contract CA on the ledger.
\* MyInvestmentsPage keeps the balance it loaded (holdings) and the holding
\* in its sell modal (selectedHolding); 0 stands for no holding.
saleRest == <<callVars, companies, pageVars, codec, shown, form, server, wallet>>

SaleInit ==
    /\ CallsInit(Calls)
    /\ MarketInit
    /\ codec = NoCodec
    /\ shown = NoShown
    /\ form = NoForms
    /\ server = NoServer
    /\ wallet = NoWallet
    /\ sale \in {[NoSale EXCEPT !.chain = b] : b \in 0..MaxTokens}

\* what the forms can hold: parseInt(tokens), parseFloat(price)
SellTokens == 0..MaxTokens

SellPrices == 0..1

\* A transfer confirmed on the ledger (a purchase from the seller, a
\* purchase by the seller) changes the seller's balance.
ChainTransfer ==
    /\ \E b \in (0..MaxTokens) \ {sale.chain} :
          sale' = [sale EXCEPT !.chain = b]
    /\ UNCHANGED <<storeVars, saleRest>>

\* MyInvestmentsPage.loadInvestments: getTokenBalance for the company; the
\* holding is kept when balance > 0 and dropped otherwise.
loadInvestments ==
    /\ \E outcome \in ReadOutcomes :
          LET balance == TokenBalanceOf(outcome, sale.chain)
          IN  sale' = [sale EXCEPT !.holdings = IF balance > 0 THEN balance ELSE 0]
    /\ UNCHANGED <<storeVars, saleRest>>

\* MyInvestmentsPage.handleSell: setSelectedHolding(holding)
handleSell ==
    /\ sale.holdings > 0
    /\ sale' = [sale EXCEPT !.selectedHolding = sale.holdings]
    /\ UNCHANGED <<storeVars, saleRest>>

\* The sell request the handler is working on.
Selling(page, tokens, price, balance) ==
    [sale EXCEPT !.page = page, !.tokens = tokens, !.price = price,
                 !.balance = balance]

NewListing(tokens, price) ==
    [contract_id |-> "CA", seller_wallet |-> Seller, tokens_for_sale |-> tokens,
     price_per_token |-> price, is_active |-> TRUE]

\* MyInvestmentsPage.handleCreateResaleListing: refused without a selected
\* holding, when tokensToSell > selectedHolding.tokenBalance and when
\* tokensToSell <= 0; otherwise createResaleListing, and on success the
\* modal is closed (setSelectedHolding(null)).
MyInvestmentsPage_handleCreateResaleListing ==
    /\ Len(listings) < MaxRows
    /\ sale.selectedHolding # 0
    /\ \E tokens \in SellTokens, price \in SellPrices, db \in DbOutcomes :
          LET req == Selling("MyInvestmentsPage", tokens, price,
                             sale.selectedHolding)
          IN  IF tokens > sale.selectedHolding \/ tokens <= 0
              THEN /\ sale' = [req EXCEPT !.outcome = "refused"]
                   /\ UNCHANGED storeVars
              ELSE /\ createResaleListing(NewListing(tokens, price), db)
                   /\ sale' = IF reply'.out = "value"
                              THEN [req EXCEPT !.outcome = "created",
                                               !.selectedHolding = 0]
                              ELSE [req EXCEPT !.outcome = "failed"]
    /\ UNCHANGED saleRest

\* CreateListingPage.handleCreateResaleListing: balance = await
\* getTokenBalance(contractId, walletAddress); refused when
\* balance < tokensToSell; otherwise createResaleListing.
CreateListingPage_handleCreateResaleListing ==
    /\ Len(listings) < MaxRows
    /\ \E tokens \in SellTokens, price \in SellPrices,
          outcome \in ReadOutcomes, db \in DbOutcomes :
          LET balance == TokenBalanceOf(outcome, sale.chain)
              req == Selling("CreateListingPage", tokens, price, balance)
          IN  IF balance < tokens
              THEN /\ sale' = [req EXCEPT !.outcome = "refused"]
                   /\ UNCHANGED storeVars
              ELSE /\ createResaleListing(NewListing(tokens, price), db)
                   /\ sale' = [req EXCEPT !.outcome =
                                  IF reply'.out = "value" THEN "created"
                                  ELSE "failed"]
    /\ UNCHANGED saleRest

SaleNext ==
    \/ ChainTransfer
    \/ loadInvestments
    \/ handleSell
    \/ MyInvestmentsPage_handleCreateResaleListing
    \/ CreateListingPage_handleCreateResaleListing

SaleSpec == SaleInit /\ [][SaleNext]_vars

\* ----------------- CreateListingPage.handleCreateCompanyListing, per tab c
\* What the contract ID field can hold: nothing, a wallet address, or the
\* address of a deployed contract.
FormIds == {"", "GWALLET"} \cup Contracts

\* contractId.startsWith('C')
StartsWithC(id) == id \in {"CA", "CB"}

companyRest == <<listings, pageVars, codec, shown, sale, server, wallet>>

\* handleCreateCompanyListing up to its first await: an empty contract ID
\* and one not starting with 'C' are refused with an alert; otherwise
\* initializeCompany calls invokeContract(..., 'init_company', params).
handleCreateCompanyListing(c) ==
    /\ pc[c] = "idle"
    /\ Len(companies) < MaxRows
    /\ \E id \in FormIds :
          IF id = "" \/ ~StartsWithC(id)
          THEN /\ form' = [form EXCEPT ![c] =
                      [NoForm EXCEPT !.contractId = id, !.outcome = "refused"]]
               /\ UNCHANGED <<kind, caller, pc, err>>
          ELSE /\ form' = [form EXCEPT ![c] =
                      [NoForm EXCEPT !.contractId = id, !.submitted = id,
                                     !.outcome = "running"]]
               /\ kind' = [kind EXCEPT ![c] = "invoke"]
               /\ caller' = [caller EXCEPT ![c] = "handleCreateCompanyListing"]
               /\ \E validId \in BOOLEAN :
                     IF validId
                     THEN /\ pc' = [pc EXCEPT ![c] = "getAccount"]
                          /\ err' = err
                     ELSE Throw(c, "InvalidAddress")
    /\ UNCHANGED <<calls, stages, simResult, signResult, sendStatus,
                   lastStatus, ledger, retval, result, errStatus, callerOut>>
    /\ UNCHANGED <<storeVars, companyRest>>

\* The metadata is saved although initializeCompany threw.
CompanyFailed_SavesAnyway(c) ==
    /\ caller[c] = "handleCreateCompanyListing"
    /\ pc[c] = "failed"
    /\ callerOut[c].kind = "none"
    /\ saveCompanyMetadata([contractId |-> form[c].submitted,
                            owner_wallet |-> Owner], "ok")
    /\ form' = [form EXCEPT ![c].saved = TRUE, ![c].outcome = "failed"]
    /\ callerOut' = [callerOut EXCEPT ![c] =
          [kind |-> "alert_err", val |-> NullV, msg |-> err[c]]]
    /\ UNCHANGED <<kind, caller, pc, calls, stages, simResult, signResult,
                   sendStatus, lastStatus, ledger, retval, result, err,
                   errStatus>>
    /\ UNCHANGED companyRest

\* initializeCompany threw: catch (error) ->
\* alert(`Failed to create listing: ${error.message}`)
CompanyFailed(c) ==
    /\ caller[c] = "handleCreateCompanyListing"
    /\ pc[c] = "failed"
    /\ callerOut[c].kind = "none"
    /\ form' = [form EXCEPT ![c].outcome = "failed"]
    /\ callerOut' = [callerOut EXCEPT ![c] =
          [kind |-> "alert_err", val |-> NullV, msg |-> err[c]]]
    /\ UNCHANGED <<kind, caller, pc, calls, stages, simResult, signResult,
                   sendStatus, lastStatus, ledger, retval, result, err,
                   errStatus>>
    /\ UNCHANGED <<storeVars, companyRest>>

\* initializeCompany returned: await saveCompanyMetadata({contractId, ...});
\* alert(success); the form is reset and loadCompanies() is started. A store
\* error goes to the same catch.
CompanyInitialized(c) ==
    /\ caller[c] = "handleCreateCompanyListing"
    /\ pc[c] = "returned"
    /\ callerOut[c].kind = "none"
    /\ \E db \in DbOutcomes :
          saveCompanyMetadata([contractId |-> form[c].submitted,
                               owner_wallet |-> Owner], db)
    /\ IF reply'.out = "throw"
       THEN /\ form' = [form EXCEPT ![c].saved = TRUE, ![c].outcome = "failed"]
            /\ callerOut' = [callerOut EXCEPT ![c] =
                  [kind |-> "alert_err", val |-> NullV, msg |-> reply'.cause]]
       ELSE /\ form' = [form EXCEPT ![c].saved = TRUE, ![c].outcome = "created",
                                    ![c].contractId = "", ![c].reload = TRUE]
            /\ callerOut' = [callerOut EXCEPT ![c] =
                  [kind |-> "alert_ok", val |-> NullV, msg |-> "none"]]
    /\ UNCHANGED <<kind, caller, pc, calls, stages, simResult, signResult,
                   sendStatus, lastStatus, ledger, retval, result, err,
                   errStatus>>
    /\ UNCHANGED companyRest

\* loadCompanies: setCompanies(await getCompaniesMetadata())
loadCompanies(c) ==
    /\ form[c].reload
    /\ \E db \in DbOutcomes : getCompaniesMetadata(db)
    /\ form' = [form EXCEPT ![c].reload = FALSE]
    /\ UNCHANGED <<callVars, companyRest>>

CompanyStep(c) ==
    \/ handleCreateCompanyListing(c)
    \/ GetAccount(c)
    \/ Simulate(c)
    \/ Sign(c)
    \/ Send(c)
    \/ Poll(c)
    \/ Sleep(c)
    \/ LedgerSettle(c)
    \/ CompanyFailed(c)
    \/ CompanyInitialized(c)
    \/ loadCompanies(c)

CompanyNext == \E c \in Calls : CompanyStep(c)

CompanySpec == Init /\ [][CompanyNext]_vars

\* ------------------------------- the backend: POST /api/deploy-contract
\* contractId.length < 50
MinIdLength == 50

\* A line of the deploy command's output: its first character and length
\* without the white space around it; padded tells that there is some.
EmptyLine == [head |-> "", len |-> 0, padded |-> FALSE]

Lines ==
    [head : {"C", "G"},
     len : {1, MinIdLength - 1, MinIdLength, MinIdLength + 6},
     padded : BOOLEAN]
    \cup [head : {""}, len : {0}, padded : BOOLEAN]

RECURSIVE SeqsUpTo(_, _)
SeqsUpTo(S, n) ==
    IF n = 0 THEN {<<>>}
    ELSE LET shorter == SeqsUpTo(S, n - 1)
         IN  shorter \cup {Append(q, x) : q \in {r \in shorter : Len(r) = n - 1},
                                           x \in S}

Stdouts == SeqsUpTo(Lines, MaxLines)

\* String.prototype.trim on one line
Trim(line) == [line EXCEPT !.padded = FALSE]

\* the lines of stdout.trim(): white space at the end is dropped
RECURSIVE TrimEnd(_)
TrimEnd(lines) ==
    IF lines = <<>> THEN <<>>
    ELSE IF lines[Len(lines)].len = 0
         THEN TrimEnd(SubSeq(lines, 1, Len(lines) - 1))
         ELSE lines

\* deployStdout.trim().split('\n').pop().trim()
LastLine(stdout) ==
    LET t == TrimEnd(stdout)
    IN  IF t = <<>> THEN EmptyLine ELSE Trim(t[Len(t)])

\* contractId.length
Length(line) == line.len + (IF line.padded THEN 2 ELSE 0)

\* contractId.startsWith(ch)
StartsWith(line, ch) == ~line.padded /\ line.head = ch

\* Any identifier starting with 'C' is accepted.
ValidContractId_PrefixOnly(contractId) ==
    ~(Length(contractId) = 0 \/ ~StartsWith(contractId, "C"))

\* !(!contractId || !contractId.startsWith('C') || contractId.length < 50)
ValidContractId(contractId) ==
    ~(Length(contractId) = 0 \/ ~StartsWith(contractId, "C")
        \/ Length(contractId) < MinIdLength)

\* res.status(500).json({ success: false, error, details })
Failure(error, details) ==
    [status |-> 500, success |-> FALSE, error |-> error, details |-> details,
     contractId |-> EmptyLine]

\* res.json({ success: true, contractId, message, explorerUrl })
Success(contractId) ==
    [status |-> 200, success |-> TRUE, error |-> "none", details |-> "none",
     contractId |-> contractId]

Respond(sv, response) ==
    [sv EXCEPT !.stage = "done", !.responses = Append(@, response)]

serverRest == <<callVars, storeVars, pageVars, codec, shown, sale, form, wallet>>

\* The handler up to its first await: it starts the build command; an
\* error thrown on the way goes to the outer catch.
PostDeployContract ==
    /\ server.stage = "idle"
    /\ \E threw \in BOOLEAN :
          server' =
             IF threw
             THEN Respond([server EXCEPT !.threw = TRUE],
                          Failure("Internal server error", "message"))
             ELSE [server EXCEPT !.stage = "build",
                                 !.commands = Append(@, "build")]
    /\ UNCHANGED serverRest

\* A failed build is answered, and the deploy command is started too.
BuildExits_DeploysAnyway ==
    /\ server.stage = "build"
    /\ \E outcome \in {"ok", "error"} :
          server' =
             IF outcome = "error"
             THEN [server EXCEPT !.build = "error", !.stage = "deploy",
                       !.commands = Append(@, "deploy"),
                       !.responses = Append(@,
                           Failure("Contract build failed", "message"))]
             ELSE [server EXCEPT !.build = "ok", !.stage = "deploy",
                                 !.commands = Append(@, "deploy")]
    /\ UNCHANGED serverRest

\* await execPromise(buildCommand): a rejection (non-zero exit) is answered
\* with 'Contract build failed' and ends the request; otherwise the deploy
\* command is started.
BuildExits ==
    /\ server.stage = "build"
    /\ \E outcome \in {"ok", "error"} :
          server' =
             IF outcome = "error"
             THEN Respond([server EXCEPT !.build = "error"],
                          Failure("Contract build failed", "message"))
             ELSE [server EXCEPT !.build = "ok", !.stage = "deploy",
                                 !.commands = Append(@, "deploy")]
    /\ UNCHANGED serverRest

\* await execPromise(deployCommand): a rejection is answered with 'Contract
\* deployment failed'; otherwise the last line of stdout is the contract
\* id, answered with success when valid and with 'Failed to extract valid
\* contract ID' when not.
DeployExits ==
    /\ server.stage = "deploy"
    /\ \E outcome \in {"ok", "error"}, stdout \in Stdouts :
          server' =
             IF outcome = "error"
             THEN Respond([server EXCEPT !.deploy = "error"],
                          Failure("Contract deployment failed", "message"))
             ELSE LET contractId == LastLine(stdout)
                      sv == [server EXCEPT !.deploy = "ok", !.stdout = stdout]
                  IN  IF ValidContractId(contractId)
                      THEN Respond(sv, Success(contractId))
                      ELSE Respond(sv, Failure(
                              "Failed to extract valid contract ID", "output"))
    /\ UNCHANGED serverRest

ServerNext ==
    \/ PostDeployContract
    \/ BuildExits
    \/ DeployExits

ServerSpec == Init /\ [][ServerNext]_vars

\* A started command exits, and the event loop then resumes the handler.
ServerLiveSpec ==
    /\ ServerSpec
    /\ WF_vars(BuildExits)
    /\ WF_vars(DeployExits)

\* ----------------------------------------------------- WalletProvider
\* The effect on [walletAddress] runs with the render that follows
\* setWalletAddress: its cleanup clears the interval, and with an address
\* set it calls refreshBalance() and sets a new interval. A refreshBalance
\* that passed its first line is in flight until its fetch settles.
walletRest == <<callVars, storeVars, pageVars, codec, shown, sale, form, server>>

\* what Horizon reports as the native balance
HorizonBalances == {"0.0000000", "0.0050000", "1.2345678"}

\* parseFloat(xlmBalance.balance).toFixed(2)
ToFixed2(b) ==
    CASE b = "0.0000000" -> "0.00"
      [] b = "0.0050000" -> "0.01"
      [] OTHER           -> "1.23"

\* outcomes of fetch(`${horizon}/accounts/${walletAddress}`)
FetchOutcomes == {"native", "no_native", "not_ok", "threw"}

\* outcomes of requestAccess() followed by setAllowed()
AccessOutcomes == {"granted", "User declined access",
                   "Freighter is not installed", "other"}

\* setWalletAddress(address) and the effect that follows it
Connected(w) ==
    [w EXCEPT !.walletAddress = "GA", !.interval = TRUE,
              !.inflight = IF w.walletAddress = "GA" THEN @ ELSE @ + 1]

\* checkWalletConnection, started 100 ms after mount: with Freighter
\* connected and an address returned, setWalletAddress(address).
checkWalletConnection ==
    /\ ~wallet.checked
    /\ wallet.inflight < MaxRefresh
    /\ \E found \in BOOLEAN :
          wallet' = IF found THEN Connected([wallet EXCEPT !.checked = TRUE])
                    ELSE [wallet EXCEPT !.checked = TRUE]
    /\ UNCHANGED walletRest

\* connectWallet up to await requestAccess(): setError(null)
connectWallet ==
    /\ ~wallet.connecting
    /\ wallet' = [wallet EXCEPT !.error = "null", !.connecting = TRUE]
    /\ UNCHANGED walletRest

\* connectWallet after its awaits: setWalletAddress(address), or setError
AccessSettles ==
    /\ wallet.connecting
    /\ wallet.inflight < MaxRefresh
    /\ \E outcome \in AccessOutcomes :
          wallet' =
             IF outcome = "granted"
             THEN Connected([wallet EXCEPT !.connecting = FALSE])
             ELSE [wallet EXCEPT !.connecting = FALSE,
                      !.error = CASE outcome = "User declined access" ->
                                        "User declined wallet access"
                                  [] outcome = "Freighter is not installed" ->
                                        "Freighter wallet extension not found"
                                  [] OTHER -> "Failed to connect wallet"]
    /\ UNCHANGED walletRest

\* setInterval(refreshBalance, 30000) fires: refreshBalance, with the
\* address of the render that set the interval, starts its fetch.
IntervalFires ==
    /\ wallet.interval
    /\ wallet.inflight < MaxRefresh
    /\ wallet' = [wallet EXCEPT !.inflight = @ + 1]
    /\ UNCHANGED walletRest

\* refreshBalance after await fetch(...): response.ok with a native balance
\* -> setBalance(toFixed(2)); without one nothing; !response.ok ->
\* setBalance('0.00'); a rejected fetch is logged.
RefreshSettles ==
    /\ wallet.inflight > 0
    /\ \E outcome \in FetchOutcomes, b \in HorizonBalances :
          wallet' = [wallet EXCEPT
                        !.inflight = @ - 1,
                        !.balance = CASE outcome = "native" -> ToFixed2(b)
                                      [] outcome = "not_ok" -> "0.00"
                                      [] OTHER              -> @]
    /\ UNCHANGED walletRest

\* disconnectWallet: setWalletAddress(null); setBalance(null);
\* setError(null); the effect's cleanup clears the interval.
disconnectWallet ==
    /\ wallet' = [wallet EXCEPT !.walletAddress = "null", !.balance = "null",
                                !.error = "null", !.interval = FALSE]
    /\ UNCHANGED walletRest

WalletNext ==
    \/ checkWalletConnection
    \/ connectWallet
    \/ AccessSettles
    \/ IntervalFires
    \/ RefreshSettles
    \/ disconnectWallet

WalletSpec == Init /\ [][WalletNext]_vars

\* ================================================================ claims
IsPrefix(s, t) == Len(s) <= Len(t) /\ s = SubSeq(t, 1, Len(s))

\* x is the native value the code returns for the wire value rv
IsDecoded(rv, x) ==
    /\ rv.type \in {"absent", "void"} => x = NullV
    /\ rv.type = "i128" => x.t = "bigint" /\ x.v = rv.val
    /\ rv.type = "map" => x.t = "object" /\ x.v = rv.val

Invokes == {c \in Calls : kind[c] = "invoke"}
Reads == {c \in Calls : kind[c] = "read"}

\* C1: the signer is called only after simulateTransaction has returned, for
\* the same invocation, a result that is not a simulation error.
C1_SimulateBeforeSign ==
    \A c \in Invokes :
        calls[c]["sign"] > 0 =>
            /\ calls[c]["simulate"] > 0
            /\ simResult[c] = "ok"

C1_Witness ==
    \E c \in Invokes : calls[c]["sign"] = 1 /\ signResult[c] = "signed"

\* C2: when the simulation reports an error, invokeContract ends with
\* SimulationError and the signer, sendTransaction and getTransaction are
\* never called.
C2_SimulationErrorShortCircuits ==
    \A c \in Invokes :
        simResult[c] = "error" =>
            /\ pc[c] = "failed"
            /\ err[c] = "SimulationError"
            /\ calls[c]["sign"] = 0
            /\ calls[c]["send"] = 0
            /\ calls[c]["get"] = 0

C2_Witness ==
    \E c \in Invokes :
        /\ simResult[c] = "error"
        /\ callerOut[c].kind = "alert_err"

\* C3: the stages run in the order account, build, simulate, assemble, sign,
\* submit, confirm, none skipped and none revisited; sendTransaction only after
\* the signer returned a signed envelope; getTransaction only after
\* sendTransaction returned PENDING; after a failure no later stage runs.
C3_StagesInOrder ==
    /\ [](\A c \in Invokes :
            /\ IsPrefix(stages[c], StageOrder)
            /\ calls[c]["send"] > 0 => signResult[c] = "signed"
            /\ calls[c]["get"] > 0 => sendStatus[c] = "PENDING")
    /\ [][\A c \in Calls :
            pc[c] = "failed" =>
                /\ pc'[c] = "failed"
                /\ stages'[c] = stages[c]
                /\ calls'[c] = calls[c]]_vars

C3_Witness ==
    \E c \in Invokes :
        /\ stages[c] = StageOrder
        /\ calls[c]["get"] >= 2
        /\ pc[c] = "returned"

\* C4: invokeContract returns (the decoded return value, null when absent)
\* only if the last polled status is SUCCESS; when polling ends on another
\* status it fails with TransactionFailed carrying that status.
C4_ReturnOnlyOnSuccess ==
    \A c \in Invokes :
        /\ pc[c] = "returned" =>
              /\ lastStatus[c] = "SUCCESS"
              /\ IsDecoded(retval[c], result[c])
        /\ lastStatus[c] \notin {"NONE", "NOT_FOUND", "SUCCESS", "THREW"} =>
              /\ pc[c] = "failed"
              /\ err[c] = "TransactionFailed"
              /\ errStatus[c] = lastStatus[c]

C4_Witness ==
    \E c \in Invokes :
        /\ pc[c] = "returned"
        /\ retval[c].type = "absent"
        /\ result[c] = NullV
        /\ callerOut[c].kind = "alert_ok"

\* C5: an immediate sendTransaction status other than PENDING ends the call
\* with SubmissionFailed, and getTransaction is never polled.
C5_SubmissionFailed ==
    \A c \in Invokes :
        sendStatus[c] \in SendStatuses \ {"PENDING"} =>
            /\ pc[c] = "failed"
            /\ err[c] = "SubmissionFailed"
            /\ calls[c]["get"] = 0

C5_Witness ==
    \E c \in Invokes :
        /\ sendStatus[c] = "TRY_AGAIN_LATER"
        /\ callerOut[c].kind = "alert_err"

C7_PollTerminates ==
    \A c \in Calls :
        (pc[c] \in {"poll", "sleep"} /\ ledger[c] \in {"SUCCESS", "FAILED"})
            ~> \/ pc[c] = "returned" /\ lastStatus[c] = "SUCCESS"
               \/ pc[c] = "failed" /\ err[c] = "TransactionFailed"
                                   /\ lastStatus[c] = "FAILED"
               \/ pc[c] = "failed" /\ lastStatus[c] = "THREW"

C7_Witness ==
    \E c \in Calls :
        /\ pc[c] = "sleep"
        /\ ledger[c] = "FAILED"
        /\ lastStatus[c] = "NOT_FOUND"

\* C8: no automatic retry: getAccount, simulateTransaction, signTransaction and
\* sendTransaction are each called at most once per invocation, and a failed
\* call issues no further request (only getTransaction repeats).
C8_NoRetry ==
    /\ [](\A c \in Invokes :
            \A r \in {"getAccount", "simulate", "sign", "send"} :
                calls[c][r] <= 1)
    /\ [][\A c \in Invokes :
            pc[c] = "failed" => pc'[c] = "failed" /\ calls'[c] = calls[c]]_vars

C8_Witness ==
    \E c \in Invokes :
        /\ calls[c]["get"] >= 2
        /\ \A r \in {"getAccount", "simulate", "sign", "send"} : calls[c][r] = 1
        /\ pc[c] = "failed"
        /\ callerOut[c].kind = "alert_err"

\* C9: every failure of an on-chain call made through invokeContract or
\* readContract reaches the caller as an error and is shown as a message; none
\* is turned into a normal result (a balance of 0, an absent company info).
C9_FailuresSurface ==
    \A c \in Calls :
        (pc[c] = "failed" /\ callerOut[c].kind # "none") =>
            /\ callerOut[c].kind = "alert_err"
            /\ callerOut[c].msg = err[c]

\* C10: readContract never calls the signer, sendTransaction or
\* getTransaction; it stops after simulate, returning the decoded simulated
\* value (null when absent) or failing with SimulationError on a simulation
\* error.
C10_ReadOnly ==
    \A c \in Reads :
        /\ calls[c]["sign"] = 0
        /\ calls[c]["send"] = 0
        /\ calls[c]["get"] = 0
        /\ IsPrefix(stages[c], SubSeq(StageOrder, 1, 3))
        /\ simResult[c] = "error" => pc[c] = "failed" /\ err[c] = "SimulationError"
        /\ pc[c] = "returned" =>
              /\ simResult[c] = "ok"
              /\ IsDecoded(retval[c], result[c])

C10_Witness ==
    \E c \in Reads :
        /\ pc[c] = "returned"
        /\ result[c].t = "bigint"
        /\ result[c].v = MaxVal
        /\ callerOut[c].kind = "value"

\* --------------------------------------------------- the store's claims
\* What the listings query and the companies query should return.
ActiveListings ==
    {ListingOf(listings[i]) : i \in {k \in DOMAIN listings : listings[k].is_active}}

AllCompanies == {MetadataOf(companies[i]) : i \in DOMAIN companies}

\* The rows a query returned are the expected ones, each once, newest first.
NewestFirst(rows, expected) ==
    /\ Len(rows) = Cardinality(expected)
    /\ Range(rows) = expected
    /\ \A i, j \in DOMAIN rows :
          i < j => rows[i].created_at >= rows[j].created_at

\* C17: getCompanyMetadata answers "not found" for a contract address without
\* a row, a connectivity failure reaches the caller as a thrown
\* PersistenceError, and so the two outcomes differ.
C17_NotFoundIsNotFailure ==
    reply.op = "getCompanyMetadata" =>
        /\ reply.cause = "notfound" => reply.out = "null"
        /\ reply.cause = "down" => reply.out = "throw"

C19_CreatedActive ==
    [][reply'.op = "createResaleListing" /\ reply' # reply =>
          IF reply'.out = "value"
          THEN /\ Len(listings') = Len(listings) + 1
               /\ SubSeq(listings', 1, Len(listings)) = listings
               /\ LET row == listings'[Len(listings')]
                  IN  /\ row.is_active
                      /\ row.id \notin {listings[i].id : i \in DOMAIN listings}
                      /\ reply'.rows = <<ListingOf(row)>>
                      /\ reply'.rows[1].id = row.id
                      /\ reply'.id = row.id
          ELSE /\ reply'.out = "throw"
               /\ reply'.rows = <<>>
               /\ listings' = listings]_vars

\* A caller passed is_active = false and got back a stored, active listing.
C19_Witness ==
    /\ reply.op = "createResaleListing"
    /\ reply.asked = "inactive"
    /\ reply.out = "value"
    /\ reply.rows[1].is_active
    /\ listings[reply.id].is_active

Buying(b) == caller[b] = "handleBuyResale"

\* Session b's handleBuyResale has just written its settlement to the store.
Settles(b) ==
    /\ Buying(b)
    /\ callerOut[b].kind = "none"
    /\ callerOut'[b].kind = "alert_ok"

\* C11: when a confirmed purchase of n tokens is settled against an active
\* listing whose stored tokens_for_sale is T >= n, the listing afterwards has
\* tokens_for_sale = T - n and is active if n < T, and is inactive if n = T.
C11_SettlementInvariant ==
    [][\A b \in Sessions :
          Settles(b) =>
             LET id == selectedResale[b].id
                 T == listings[id].tokens_for_sale
                 n == buyTokens[b]
             IN  (listings[id].is_active /\ n <= T) =>
                    IF n < T
                    THEN /\ listings'[id].tokens_for_sale = T - n
                         /\ listings'[id].is_active
                    ELSE ~listings'[id].is_active]_vars

\* C12: no resale purchase is sent to the network for more tokens than the
\* listing's stored tokens_for_sale at that moment.
C12_OversizedRejected ==
    [][\A b \in Sessions :
          (Buying(b) /\ pc[b] = "send" /\ calls'[b]["send"] > calls[b]["send"])
             => buyTokens[b] <= listings[selectedResale[b].id].tokens_for_sale]_vars

C14_UnconditionalOverwrite ==
    [][\A b \in Sessions :
          (Settles(b) /\ selectedResale[b].tokens_for_sale > buyTokens[b]) =>
             LET id == selectedResale[b].id
             IN  /\ listings'[id].tokens_for_sale =
                       selectedResale[b].tokens_for_sale - buyTokens[b]
                 /\ listings'[id].is_active = listings[id].is_active]_vars

\* Both sessions read the listing at T tokens, bought n1 and n2 and settled:
\* the stored quantity is T - n1 or T - n2 and not T - n1 - n2.
C14_Witness ==
    /\ \A b \in Sessions : Buying(b) /\ callerOut[b].kind = "alert_ok"
    /\ selectedResale[1] = selectedResale[2]
    /\ LET id == selectedResale[1].id
           T == selectedResale[1].tokens_for_sale
       IN  /\ listings[id].tokens_for_sale \in {T - buyTokens[1], T - buyTokens[2]}
           /\ listings[id].tokens_for_sale # T - buyTokens[1] - buyTokens[2]
           /\ listings[id].is_active

\* C15: nothing on the client makes one orchestration wait for another: every
\* invokeContract call can take its next step (build, simulate, sign, submit,
\* poll) whatever the other call is doing, so both can be polling at once.
C15_NoMutualExclusion ==
    \A c \in Sessions :
        kind[c] = "invoke" =>
            /\ pc[c] = "getAccount" => ENABLED GetAccount(c)
            /\ pc[c] = "simulate" => ENABLED Simulate(c)
            /\ pc[c] = "sign" => ENABLED Sign(c)
            /\ pc[c] = "send" => ENABLED Send(c)
            /\ pc[c] = "poll" => ENABLED Poll(c)

\* Two purchases from the same listing of the same contract were both
\* submitted and are both waiting for confirmation.
C15_Witness ==
    /\ \A c \in Sessions :
          /\ Buying(c)
          /\ pc[c] \in {"poll", "sleep"}
          /\ sendStatus[c] = "PENDING"
    /\ selectedResale[1].contract_id = selectedResale[2].contract_id
    /\ selectedResale[1].id = selectedResale[2].id

\* C16: a stored listing changes only in the step in which a handleBuyResale
\* whose transferTokensWithPayment returned after a confirmed SUCCESS writes
\* its settlement for that listing; a handleBuyResale whose orchestration
\* failed writes nothing.
C16_WriteOnlyAfterSuccess ==
    [][/\ \A i \in DOMAIN listings :
             listings'[i] # listings[i] =>
                \E b \in Sessions :
                    /\ Settles(b)
                    /\ pc[b] = "returned"
                    /\ lastStatus[b] = "SUCCESS"
                    /\ selectedResale[b].id = i
       /\ \A b \in Sessions :
             (Buying(b) /\ pc[b] = "failed" /\ callerOut'[b] # callerOut[b]) =>
                listings' = listings]_vars

\* A purchase failed at the confirm stage, the buyer was told, and the
\* listing is stored as the buyer's page had read it.
C16_Witness ==
    \E b \in Sessions :
        /\ Buying(b)
        /\ pc[b] = "failed"
        /\ err[b] = "TransactionFailed"
        /\ callerOut[b].kind = "alert_err"
        /\ ListingOf(listings[selectedResale[b].id]) = selectedResale[b]

\* ------------------------------------------- rows are kept, flags stay off
\* C21: no facade operation deletes a row: in every step every stored company
\* row stays as it is and every stored listing id stays stored.
C21_NoRowDeleted ==
    [][/\ Len(companies') >= Len(companies)
       /\ \A i \in DOMAIN companies :
             \E j \in DOMAIN companies' : companies'[j] = companies[i]
       /\ Len(listings') >= Len(listings)
       /\ \A i \in DOMAIN listings :
             \E j \in DOMAIN listings' : listings'[j].id = listings[i].id]_vars

\* Both tables hold rows, and a listing that was sold out and deactivated is
\* still stored.
C21_Witness ==
    /\ Len(companies) >= 1
    /\ Len(listings) = 2
    /\ reply.op = "deactivateResaleListing"
    /\ reply.out = "ok"
    /\ reply.id \in {listings[i].id : i \in DOMAIN listings}

\* C26: when transfer_with_payment was confirmed for a listing, the step in
\* which handleBuyResale finishes its settlement leaves that listing with a
\* smaller stored quantity or inactive.
C26_StoreFollowsChain ==
    [][\A b \in Sessions :
          (Buying(b) /\ pc[b] = "returned" /\ lastStatus[b] = "SUCCESS"
             /\ callerOut[b].kind = "none" /\ callerOut'[b].kind # "none") =>
             LET id == selectedResale[b].id
             IN  \/ listings'[id].tokens_for_sale < listings[id].tokens_for_sale
                 \/ ~listings'[id].is_active]_vars

\* C27: a listing with is_active = false stays inactive in every step,
\* a quantity update of it included.
C27_NeverReactivated ==
    [][\A i \in DOMAIN listings :
          ~listings[i].is_active =>
             /\ i \in DOMAIN listings'
             /\ ~listings'[i].is_active]_vars

\* The quantity of an inactive listing was updated and it is still inactive.
C27_Witness ==
    /\ reply.op = "updateResaleListingQuantity"
    /\ reply.out = "ok"
    /\ reply.id \in DOMAIN listings
    /\ ~listings[reply.id].is_active

\* ------------------------------------------------------------ the codec
\* C25: an integer v of the safe-integer range encoded by numberToScVal and
\* decoded by scValToNative and bigIntToNumber comes back as v, and so does
\* an i128 of that range returned by the ledger.
C25_RoundTrip ==
    (codec.stage = "done" /\ Abs(codec.src) <= SafeMax) => codec.out = codec.src

\* The largest safe integer made the round trip.
C25_Witness ==
    /\ codec.stage = "done"
    /\ codec.given = "number"
    /\ codec.src = SafeMax
    /\ codec.sc = [type |-> "i128", val |-> SafeMax]
    /\ codec.native = [t |-> "bigint", v |-> SafeMax]
    /\ codec.out = SafeMax

\* -------------------------------------------------------- tokens sold
\* C24: the tokens-sold figure of a company is the contract's total supply
\* minus the owner's balance on the contract, and 0 when the company info
\* could not be read.
C24_TokensSold ==
    shown.stage = "done" =>
        shown.tokensSold = IF shown.infoRead = "ok"
                           THEN shown.supply - shown.balance
                           ELSE 0

\* ------------------------------------------------------ listings for sale
\* C28: every resale listing created through CreateListingPage or
\* MyInvestmentsPage has tokens_for_sale > 0, price_per_token > 0 and
\* tokens_for_sale not greater than the balance the seller holds on the
\* ledger when the listing is created; a request violating one of these
\* creates no listing.
C28_ListedWithinBalance ==
    [][Len(listings') > Len(listings) =>
          LET row == listings'[Len(listings')]
          IN  /\ row.tokens_for_sale > 0
              /\ row.price_per_token > 0
              /\ row.tokens_for_sale <= sale.chain]_vars

\* -------------------------------------------------- company listings
\* C22: saveCompanyMetadata is called, and a CompanyMetadata row written,
\* only after the init_company invocation for that contract address has
\* been confirmed on the ledger; it is never called after initializeCompany
\* failed.
C22_SavedAfterInit ==
    /\ \A c \in Calls :
          form[c].saved =>
             /\ pc[c] = "returned"
             /\ ledger[c] = "SUCCESS"
             /\ lastStatus[c] = "SUCCESS"
    /\ \A i \in DOMAIN companies :
          \E c \in Calls :
             /\ caller[c] = "handleCreateCompanyListing"
             /\ form[c].submitted = companies[i].contract_id
             /\ ledger[c] = "SUCCESS"

\* a submission whose initialization was confirmed wrote its company row
C22_Witness ==
    /\ Len(companies) > 0
    /\ \E c \in Calls : form[c].saved /\ form[c].outcome = "created"

\* ------------------------------------------------------------ the backend
\* C23: POST /api/deploy-contract answers success:true only with a
\* contractId that starts with 'C' and has at least 50 characters; a build
\* failure, a deploy failure, an invalid contract id and an unexpected error
\* are answered with status 500 and a body with success:false, error and
\* details.
C23_DeployAnswers ==
    /\ \A i \in DOMAIN server.responses :
          LET r == server.responses[i]
          IN  IF r.success
              THEN /\ r.contractId.head = "C"
                   /\ ~r.contractId.padded
                   /\ r.contractId.len >= MinIdLength
                   /\ server.build = "ok" /\ server.deploy = "ok"
              ELSE /\ r.status = 500
                   /\ r.error # "none"
                   /\ r.details # "none"
    /\ server.stage = "done" /\ server.responses # <<>> =>
          LET failed == \/ server.threw
                        \/ server.build = "error"
                        \/ server.deploy = "error"
                        \/ server.stdout = <<>>
                        \/ \A i \in DOMAIN server.stdout :
                              (\A j \in DOMAIN server.stdout :
                                  j > i => server.stdout[j].len = 0)
                              => \/ server.stdout[i].head # "C"
                                 \/ server.stdout[i].len < MinIdLength
          IN  failed => ~server.responses[1].success

\* a deployment that printed a well-formed id, followed by an empty line,
\* was answered with success
C23_Witness ==
    /\ server.stage = "done"
    /\ server.deploy = "ok"
    /\ Len(server.stdout) > 1
    /\ server.stdout[Len(server.stdout)].len = 0
    /\ server.responses[1].success

\* C30: the deploy command is run only after the build command succeeded
\* (a build failure ends the request without deploying), and every request
\* receives exactly one response.
C30_BuildThenDeployOneResponse ==
    /\ [](/\ Len(server.responses) <= 1
          /\ (\E i \in DOMAIN server.commands : server.commands[i] = "deploy")
                => server.build = "ok" /\ server.commands = <<"build", "deploy">>
          /\ server.build = "error" => server.stage = "done"
          /\ server.stage = "done" => Len(server.responses) = 1)
    /\ (server.stage # "idle" ~> Len(server.responses) = 1)

\* a request whose build failed was answered without deploying
C30_Witness ==
    /\ server.build = "error"
    /\ server.commands = <<"build">>
    /\ Len(server.responses) = 1

\* ------------------------------------------------------------- the wallet
\* C29: the balance-refresh interval exists only while a wallet address is
\* set, and whenever walletAddress is null the balance is null: a refresh
\* in flight when disconnectWallet runs does not set the balance
\* afterwards.
C29_WalletSession ==
    /\ wallet.interval => wallet.walletAddress # "null"
    /\ wallet.walletAddress = "null" => wallet.balance = "null"

====
